---------------------------- MODULE Spec2Model ----------------------------
(***************************************************************************)
(* A model of swsssdk/configdb.py (class ConfigDBConnector): the key and   *)
(* value codecs, the table store operations on a Redis hash store, the     *)
(* subscription registry with the listen loop, the init barrier            *)
(* (__wait_for_db_init), and the bulk calls delete_table, mod_config with  *)
(* the read calls get_keys, get_table and get_config.                      *)
(*                                                                         *)
(* Representation of Python values.                                        *)
(*  - A string is a sequence of symbols.  The reserved characters          *)
(*    '|', ':', ',', '@' are symbols of their own; every other symbol      *)
(*    ("a", "x", "T", "NULL", "CONFIG_DB_INITIALIZED", ...) stands for     *)
(*    text holding no reserved character.  split / join / endswith /       *)
(*    upper work on these sequences as the Python methods work on          *)
(*    characters.                                                          *)
(*  - None, dict, str, list and tuple values carry a tag (field py), so    *)
(*    that '' and [] and () and None are four different values, as they    *)
(*    are in Python.                                                       *)
(*  - What the client returns (the fields and values of hgetall, the keys  *)
(*    of keys, the channel of a pubsub item) is str under Python 2 and     *)
(*    bytes under Python 3, which the PY3K branches decode; bytes are      *)
(*    modelled as the text they decode to.  Where the code splits a        *)
(*    channel without decoding it, or decodes what is a str already, the   *)
(*    exception Python 3 raises is modelled.                               *)
(*  - The iteration order of a Python dict is not fixed by the code.       *)
(*    Where two entries of a dict are written to the same target key the   *)
(*    entry iterated last wins; the operators below take a parameter ord   *)
(*    (the set of names whose list-typed entry is iterated last) and the   *)
(*    actions choose it freely.  The order of client.keys and of the       *)
(*    argument of mod_config is chosen freely in the same way.             *)
(*  - unsubscribe / __fire / listen test the registry with dict.has_key,   *)
(*    which exists in Python 2 only: under Python 3 the call raises        *)
(*    AttributeError.  The variable py3k is the module's PY3K, chosen at   *)
(*    the start of a run.                                                  *)
(*                                                                         *)
(* The Redis server is the environment: client.hgetall returns {} for a    *)
(* missing key, a hash loses its key with its last field, and each         *)
(* command that changes a key publishes one keyspace event per change,     *)
(* delivered in order to the pubsubs subscribed at that moment.  A call    *)
(* that sends several commands is one action per command, so that other    *)
(* clients read and write between them.                                    *)
(***************************************************************************)
EXTENDS Integers, Sequences, FiniteSets, TLC

VARIABLES
    separator,  \* self.TABLE_NAME_SEPARATOR = self.KEY_SEPARATOR of the instance
    py3k,       \* PY3K = sys.version_info >= (3, 0)
    db,         \* the Redis hashes: key string -> (field string -> value string)
    indicator,  \* the Redis string key CONFIG_DB_INITIALIZED: PyNone or PyStr(v)
    handlers,   \* self.handlers: table string -> callback
    lpc,        \* listen(): "idle" (not called), "listening"
    lqueue,     \* items waiting in listen's pubsub
    hist,       \* history of subscribe / unsubscribe calls (ghost)
    lastItem,   \* the item listen processed last (ghost)
    lastCalls,  \* the callback invocations made while processing lastItem (ghost)
    nevents,    \* number of keyspace events published so far (ghost, numbers the events)
    call,       \* the writing client's call in progress: its arguments, the
                \* commands it has still to send, what it read first (ghost)
    last,       \* the table store call completed last with what was stored when
                \* it began, as long as no command changed the store since (ghost)
    nops,       \* number of calls made so far (bounds the runs)
    wpc,        \* __wait_for_db_init: position of the caller
    wqueue,     \* items waiting in __wait_for_db_init's pubsub
    wsub,       \* whether that pubsub is pattern-subscribed
    winit,      \* local variable initialized
    wlog,       \* what __wait_for_db_init has read and the item it took last (ghost)
    cpc,        \* codec runs: position
    crow,       \* codec runs: the typed row given
    craw,       \* codec runs: __typed_to_raw(crow)
    cback,      \* codec runs: __raw_to_typed(craw)
    ckey,       \* codec runs: the key given
    cser,       \* codec runs: serialize_key(ckey)
    ckback      \* codec runs: deserialize_key(cser)

notifVars   == <<handlers, lpc, lqueue, hist, lastItem, lastCalls, nevents>>
storeVars   == <<db, last, nops, call>>
barrierVars == <<indicator, wpc, wqueue, wsub, winit, wlog>>
codecVars   == <<cpc, crow, craw, cback, ckey, cser, ckback>>
vars == <<separator, py3k, notifVars, storeVars, barrierVars, codecVars>>

-----------------------------------------------------------------------------
(* Python values *)

PyNone     == [py |-> "None"]
PyDict(d)  == [py |-> "dict", d |-> d]
PyStr(s)   == [py |-> "str", v |-> s]
PyList(l)  == [py |-> "list", v |-> l]
PyTuple(t) == [py |-> "tuple", v |-> t]
PyRaised   == [py |-> "raised"]     \* no value: the call ended with an exception

EmptyDict == PyDict(<<>>)

(* Program constants *)

INIT_INDICATOR == <<"CONFIG_DB_INITIALIZED">>
CLASS_KEY_SEPARATOR == <<"|">>
NULL_NAME == <<"NULL">>
LIST_SUFFIX == <<"@">>
COMMA == <<",">>
COLON == <<":">>

-----------------------------------------------------------------------------
(* String methods *)

\* s.endswith(suffix), for a one-symbol suffix
EndsWith(s, suffix) == Len(s) >= 1 /\ <<s[Len(s)]>> = suffix

\* s[:-1]
DropLast(s) == SubSeq(s, 1, Len(s) - 1)

\* positions of the one-symbol separator sep in s
SepPositions(s, sep) == {i \in 1..Len(s) : <<s[i]>> = sep}

Min(S) == CHOOSE m \in S : \A n \in S : m <= n

RECURSIVE Split(_, _)
\* s.split(sep): the list of the pieces between all separators; ''.split(sep) is ['']
Split(s, sep) ==
    IF SepPositions(s, sep) = {} THEN <<s>>
    ELSE LET i == Min(SepPositions(s, sep))
         IN  <<SubSeq(s, 1, i - 1)>> \o Split(SubSeq(s, i + 1, Len(s)), sep)

\* s.split(sep, 1): split at the first separator only
Split1(s, sep) ==
    IF SepPositions(s, sep) = {} THEN <<s>>
    ELSE LET i == Min(SepPositions(s, sep))
         IN  <<SubSeq(s, 1, i - 1), SubSeq(s, i + 1, Len(s))>>

RECURSIVE Join(_, _)
\* sep.join(l)
Join(sep, l) ==
    IF Len(l) = 0 THEN <<>>
    ELSE IF Len(l) = 1 THEN l[1]
    ELSE l[1] \o sep \o Join(sep, Tail(l))

LowerCase == <<"a", "b", "c", "d", "e", "f", "g", "h", "i", "j", "k", "l", "m",
               "n", "o", "p", "q", "r", "s", "t", "u", "v", "w", "x", "y", "z">>
UpperCase == <<"A", "B", "C", "D", "E", "F", "G", "H", "I", "J", "K", "L", "M",
               "N", "O", "P", "Q", "R", "S", "T", "U", "V", "W", "X", "Y", "Z">>

\* one character of str.upper(): a lower-case letter becomes its upper-case letter
UpperSym(c) ==
    IF \E i \in DOMAIN LowerCase : LowerCase[i] = c
    THEN UpperCase[CHOOSE i \in DOMAIN LowerCase : LowerCase[i] = c]
    ELSE c

\* item['channel'].split(':', 1): the parts, and whether the call raises (the
\* channel is bytes under Python 3, and bytes.split with a str argument is a
\* TypeError)
ChannelSplit(py3, channel) == [raised |-> py3, parts |-> Split1(channel, COLON)]

\* s.upper()
Upper(s) == [i \in 1..Len(s) |-> UpperSym(s[i])]

-----------------------------------------------------------------------------
(* Value codec *)

\* __raw_to_typed.  The loop assigns typed_data[k] from the raw field k (a scalar,
\* unless k is "NULL" or ends with '@') and from the raw field k+'@' (a list, the
\* value split on ','); when both fields are there the one iterated last stays.
RawToTyped(raw_data, ord) ==
    IF raw_data = PyNone THEN PyNone
    ELSE LET d == raw_data.d
             ScalarSrc(k) == k \in DOMAIN d /\ k # NULL_NAME /\ ~EndsWith(k, LIST_SUFFIX)
             ListSrc(k)   == (k \o LIST_SUFFIX) \in DOMAIN d
             cand == DOMAIN d \cup {DropLast(f) : f \in {g \in DOMAIN d : EndsWith(g, LIST_SUFFIX)}}
             keys == {k \in cand : ScalarSrc(k) \/ ListSrc(k)}
         IN  PyDict([k \in keys |->
                 IF ListSrc(k) /\ (~ScalarSrc(k) \/ k \in ord)
                 THEN PyList(Split(d[k \o LIST_SUFFIX], COMMA))
                 ELSE PyStr(d[k])])

\* __typed_to_raw.  The loop assigns raw_data[f] from the column f when its value
\* is no list (str(value)) and from the column f[:-1] when f ends with '@' and
\* that column is a list (','.join(value)); when both are there the one iterated
\* last stays.
TypedToRaw(typed_data, ord) ==
    IF typed_data = PyNone THEN PyNone
    ELSE IF typed_data = EmptyDict THEN PyDict([f \in {NULL_NAME} |-> NULL_NAME])
    ELSE LET t == typed_data.d
             ScalarSrc(f) == f \in DOMAIN t /\ t[f].py # "list"
             ListSrc(f)   == /\ EndsWith(f, LIST_SUFFIX)
                             /\ DropLast(f) \in DOMAIN t
                             /\ t[DropLast(f)].py = "list"
             cand == DOMAIN t \cup {k \o LIST_SUFFIX : k \in DOMAIN t}
             fields == {f \in cand : ScalarSrc(f) \/ ListSrc(f)}
         IN  PyDict([f \in fields |->
                 IF ListSrc(f) /\ (~ScalarSrc(f) \/ DropLast(f) \in ord)
                 THEN Join(COMMA, t[DropLast(f)].v)
                 ELSE t[f].v])

\* __raw_to_typed given a dict of str, as __typed_to_raw returns it: under
\* Python 3 raw_key.decode is an AttributeError at the first field
RawToTypedOfStr(py3, raw_data, ord) ==
    IF raw_data = PyNone THEN PyNone
    ELSE IF py3 /\ DOMAIN raw_data.d # {} THEN PyRaised
    ELSE RawToTyped(raw_data, ord)

\* column names that are also a list-typed column's name with the suffix
EncodeCollisions(row) ==
    {k \in DOMAIN row.d : (k \o LIST_SUFFIX) \in DOMAIN row.d}

-----------------------------------------------------------------------------
(* Key codec: both are static methods and read the class attribute *)
(* ConfigDBConnector.KEY_SEPARATOR, never the instance's separator. *)

\* serialize_key
SerializeKey(key) ==
    IF key.py = "tuple" THEN PyStr(Join(CLASS_KEY_SEPARATOR, key.v))
    ELSE PyStr(key.v)

\* deserialize_key splitting at the first separator only
DeserializeKeySplitOnce(key) ==
    LET tokens == Split1(key.v, CLASS_KEY_SEPARATOR)
    IN  IF Len(tokens) > 1 THEN PyTuple(tokens) ELSE key

\* deserialize_key
DeserializeKey(key) ==
    LET tokens == Split(key.v, CLASS_KEY_SEPARATOR)
    IN  IF Len(tokens) > 1 THEN PyTuple(tokens) ELSE key

-----------------------------------------------------------------------------
(* The Redis client, as the code uses it.  A hash with no field does not   *)
(* exist; every command that changes a key publishes one keyspace event    *)
(* for it on the channel "__keyspace@<dbid>__:<key>".                      *)

KEYSPACE_PREFIX == <<"__keyspace@4__">>

\* client.hgetall(key): {} for a key that is not there
HGetAll(store, key) ==
    IF key \in DOMAIN store THEN PyDict(store[key]) ELSE EmptyDict

\* client.hmset(key, mapping)
HMSet(store, key, mapping) ==
    LET old == IF key \in DOMAIN store THEN store[key] ELSE <<>>
        new == [f \in DOMAIN old \cup DOMAIN mapping |->
                    IF f \in DOMAIN mapping THEN mapping[f] ELSE old[f]]
    IN  [k \in DOMAIN store \cup {key} |-> IF k = key THEN new ELSE store[k]]

\* client.delete(key)
Del(store, key) == [k \in DOMAIN store \ {key} |-> store[k]]

\* client.hdel(key, field): the key goes with its last field
HDel(store, key, field) ==
    IF key \notin DOMAIN store THEN store
    ELSE LET new == [f \in DOMAIN store[key] \ {field} |-> store[key][f]]
         IN  IF DOMAIN new = {} THEN Del(store, key)
             ELSE [store EXCEPT ![key] = new]

\* client.keys(prefix + '*')
Keys(store, prefix) ==
    {k \in DOMAIN store :
        Len(k) >= Len(prefix) /\ SubSeq(k, 1, Len(prefix)) = prefix}

\* the keyspace events of the commands above: the key, once per command that changed it
DelEvents(store, key) == IF key \in DOMAIN store THEN <<key>> ELSE <<>>

HDelEvents(store, key, field) ==
    IF key \in DOMAIN store /\ field \in DOMAIN store[key]
    THEN (IF DOMAIN store[key] = {field} THEN <<key, key>> ELSE <<key>>)
    ELSE <<>>

-----------------------------------------------------------------------------
(* Table store *)

\* _hash = '{}{}{}'.format(table.upper(), self.TABLE_NAME_SEPARATOR, key)
HashOf(sep, table, key) == Upper(table) \o sep \o SerializeKey(key).v

\* get_entry returning None for a row that is not stored
GetEntryNoneIfMissing(store, sep, table, key, ord) ==
    IF HashOf(sep, table, key) \notin DOMAIN store THEN PyNone
    ELSE RawToTyped(HGetAll(store, HashOf(sep, table, key)), ord)

\* get_entry
GetEntry(store, sep, table, key, ord) ==
    RawToTyped(HGetAll(store, HashOf(sep, table, key)), ord)

\* the field set_entry deletes for a column k of original that data does not name
PruneField(original, k) ==
    IF original.d[k].py = "list" THEN k \o LIST_SUFFIX ELSE SerializeKey(PyStr(k)).v

\* the enumerations of a finite set
Orders(S) ==
    {seq \in [1..Cardinality(S) -> S] : \A x \in S : \E i \in DOMAIN seq : seq[i] = x}

\* the fields set_entry deletes: one for every column of original that data
\* does not name
PruneFields(original, data) ==
    {PruneField(original, k) : k \in {c \in DOMAIN original.d : c \notin DOMAIN data.d}}

\* set_entry sending its hdel commands before hmset
SetEntryCommandsPruneFirst(hash, data, enc, order) ==
    [i \in 1..Len(order) |-> [cmd |-> "hdel", key |-> hash, field |-> order[i]]]
    \o <<[cmd |-> "hmset", key |-> hash, mapping |-> TypedToRaw(data, enc).d]>>

\* the commands set_entry sends after it has read original, for data that is
\* not None: hmset, then one hdel per field to prune in the order of
\* original.keys(); enc is the iteration order of data in __typed_to_raw
SetEntryCommands(hash, data, enc, order) ==
    <<[cmd |-> "hmset", key |-> hash, mapping |-> TypedToRaw(data, enc).d]>>
    \o [i \in 1..Len(order) |-> [cmd |-> "hdel", key |-> hash, field |-> order[i]]]

\* the one command mod_entry sends
ModEntryCommand(sep, table, key, data, enc) ==
    IF data = PyNone
    THEN [cmd |-> "delete", key |-> HashOf(sep, table, key)]
    ELSE [cmd |-> "hmset", key |-> HashOf(sep, table, key),
          mapping |-> TypedToRaw(data, enc).d]

\* the store a command leaves and the events it publishes (client.keys changes
\* nothing)
Exec(store, c) ==
    CASE c.cmd = "hmset"  -> [store |-> HMSet(store, c.key, c.mapping), events |-> <<c.key>>]
      [] c.cmd = "hdel"   -> [store  |-> HDel(store, c.key, c.field),
                              events |-> HDelEvents(store, c.key, c.field)]
      [] c.cmd = "delete" -> [store |-> Del(store, c.key), events |-> DelEvents(store, c.key)]
      [] c.cmd = "keys"   -> [store |-> store, events |-> <<>>]

\* mod_entry: the store it leaves and the events it publishes
ModEntryResult(store, sep, table, key, data, enc) ==
    Exec(store, ModEntryCommand(sep, table, key, data, enc))

\* pattern = '{}{}*'.format(table.upper(), self.TABLE_NAME_SEPARATOR)
TablePrefix(sep, table) == Upper(table) \o sep

\* the part of a stored key after the first separator: (_, row) = key.split(sep, 1)
RowOf(sep, key) == Split1(key, sep)[2]

\* get_keys(table) returning the rows as stored, without deserialize_key
GetKeysRaw(store, sep, table) ==
    {PyStr(RowOf(sep, key)) : key \in Keys(store, TablePrefix(sep, table))}

\* get_keys(table), split=True: the keys of the list it returns (client.keys
\* yields every key once, in no specified order)
GetKeys(store, sep, table) ==
    {DeserializeKey(PyStr(RowOf(sep, key))) : key \in Keys(store, TablePrefix(sep, table))}

\* the iteration order of the fields of one stored hash, out of the orders
\* ords gives for every stored hash: the columns whose list field comes last
OrdOf(ords, key) == {p[2] : p \in {q \in ords : q[1] = key}}

\* get_table(table): the dict it returns, a function over the deserialized rows
GetTable(store, sep, table, ords) ==
    LET keys == Keys(store, TablePrefix(sep, table))
        KeyOf(row) == CHOOSE key \in keys : DeserializeKey(PyStr(RowOf(sep, key))) = row
    IN  [row \in {DeserializeKey(PyStr(RowOf(sep, key))) : key \in keys} |->
            RawToTyped(HGetAll(store, KeyOf(row)), OrdOf(ords, KeyOf(row)))]

\* delete_table's pattern built from the table name as given, not upper-cased
DeletePatternNoUpper(sep, table) == table \o sep

\* delete_table's pattern, without the '*': the keys it asks the server for
DeletePattern(sep, table) == Upper(table) \o sep

\* the commands delete_table sends once client.keys has returned keys, in
\* the order it returned them
DeleteCommands(order) == [i \in 1..Len(order) |-> [cmd |-> "delete", key |-> order[i]]]

\* mod_config replacing a table it is given rows for: delete_table, then the rows
ConfigStepsReplace(table_name, table_data) ==
    IF table_data = PyNone
    THEN {[call |-> "delete_table", table |-> table_name]}
    ELSE {[call |-> "delete_table", table |-> table_name]} \cup
         {[call |-> "mod_entry", table |-> table_name, key |-> key,
           data |-> table_data.d[key]] : key \in DOMAIN table_data.d}

\* the calls mod_config makes for one table of its argument: delete_table when
\* the table's value is None, else one mod_entry per key
ConfigSteps(table_name, table_data) ==
    IF table_data = PyNone
    THEN {[call |-> "delete_table", table |-> table_name]}
    ELSE {[call |-> "mod_entry", table |-> table_name, key |-> key,
           data |-> table_data.d[key]] : key \in DOMAIN table_data.d}

\* the orders in which mod_config may make its calls: the tables in the order
\* of the argument's iteration, the keys of one table one after the other
RECURSIVE ConfigOrders(_, _)
ConfigOrders(data, tables) ==
    IF tables = {} THEN {<<>>}
    ELSE UNION {{first \o rest : first \in Orders(ConfigSteps(t, data[t])),
                                 rest \in ConfigOrders(data, tables \ {t})} : t \in tables}

\* the first command a call of mod_config's loop sends: client.keys for
\* delete_table, the one command of mod_entry
StepCommands(sep, step) ==
    IF step.call = "delete_table"
    THEN {[cmd |-> "keys", prefix |-> DeletePattern(sep, step.table)]}
    ELSE {ModEntryCommand(sep, step.table, step.key, step.data, enc) :
             enc \in SUBSET (IF step.data = PyNone THEN {} ELSE EncodeCollisions(step.data))}

\* the commands mod_config is to send for its calls in the order of steps
\* (the delete commands of a delete_table follow from the reply to its keys)
ConfigCommands(sep, steps) ==
    {cmds \in [1..Len(steps) -> UNION {StepCommands(sep, steps[i]) : i \in 1..Len(steps)}] :
        \A i \in 1..Len(steps) : cmds[i] \in StepCommands(sep, steps[i])}

\* client.keys('*'): the hashes and the string keys (the init indicator, when set)
StringKeys(ind) == IF ind = PyNone THEN {} ELSE {INIT_INDICATOR}

AllKeys(store, ind) == DOMAIN store \cup StringKeys(ind)

\* the keys of client.keys('*') that get_config's split takes for table rows:
\* a key with no separator raises ValueError at the unpacking, before hgetall
TableFormatted(sep, key) == Len(Split1(key, sep)) = 2

\* get_config reading every key before it splits it, as get_table does
GetConfigReadFirst(store, ind, sep, ords) ==
    LET keys   == {key \in AllKeys(store, ind) : TableFormatted(sep, key)}
        tables == {Split1(key, sep)[1] : key \in keys}
    IN  [data   |-> [t \in tables |->
                        LET rows == {key \in keys : Split1(key, sep)[1] = t}
                            KeyOf(row) == CHOOSE key \in rows :
                                              DeserializeKey(PyStr(RowOf(sep, key))) = row
                        IN  [row \in {DeserializeKey(PyStr(RowOf(sep, key))) : key \in rows} |->
                                RawToTyped(HGetAll(store, KeyOf(row)), OrdOf(ords, KeyOf(row)))]],
         reads  |-> AllKeys(store, ind),
         raised |-> AllKeys(store, ind) \cap StringKeys(ind) # {}]

\* get_config: the dict it returns, the keys it sent hgetall for, and whether
\* an exception left it (hgetall of a string key is a WRONGTYPE error of the
\* server, which get_config does not catch)
GetConfig(store, ind, sep, ords) ==
    LET keys   == {key \in AllKeys(store, ind) : TableFormatted(sep, key)}
        tables == {Split1(key, sep)[1] : key \in keys}
    IN  [data   |-> [t \in tables |->
                        LET rows == {key \in keys : Split1(key, sep)[1] = t}
                            KeyOf(row) == CHOOSE key \in rows :
                                              DeserializeKey(PyStr(RowOf(sep, key))) = row
                        IN  [row \in {DeserializeKey(PyStr(RowOf(sep, key))) : key \in rows} |->
                                RawToTyped(HGetAll(store, KeyOf(row)), OrdOf(ords, KeyOf(row)))]],
         reads  |-> keys,
         raised |-> keys \cap StringKeys(ind) # {}]

-----------------------------------------------------------------------------
(* Bounds and input sets *)

MaxOps      == 3   \* calls made in a run of Spec
MaxStoreOps == 2   \* calls made in a run of StoreSpec
MaxWrites   == 3   \* writes of the external initializer in a run of BarrierSpec
MaxConfigOps == 3  \* calls made in a run of ConfigSpec

Separators == {<<"|">>, <<":">>}     \* what get_db_separator may return

KeyA  == PyStr(<<"a">>)
KeyAB == PyTuple(<< <<"a">>, <<"b">> >>)

ColC == <<"c">>
ColD == <<"d">>
ValX == PyStr(<<"x">>)
ValY == PyStr(<<"y">>)
ValEmptyList == PyList(<<>>)
ValListXY == PyList(<< <<"x">>, <<"y">> >>)

\* the rows over the columns of cols with values of vals
RowsOver(cols, vals) ==
    UNION {{PyDict(f) : f \in [cs -> vals]} : cs \in SUBSET cols}

Callbacks == {"cb1", "cb2"}
NoItem == [type |-> "none"]

-----------------------------------------------------------------------------
(* Keyspace events and pubsub items *)

Channel(key) == KEYSPACE_PREFIX \o COLON \o key

\* a pattern-matched message; n numbers the messages of one pubsub (ghost)
PMessage(key, n) == [type |-> "pmessage", channel |-> Channel(key), n |-> n]

\* the acknowledgement pubsub.listen() yields first after psubscribe(pattern)
PSubscribeAck(pattern) == [type |-> "psubscribe", channel |-> pattern, n |-> 0]

ListenPattern == Channel(<<"*">>)
InitPattern   == Channel(INIT_INDICATOR)

\* the events of a command reach listen's pubsub once it is subscribed
\* ("__keyspace@<dbid>__:*" matches every key), also after an exception has
\* ended listen: self.pubsub is never unsubscribed
PublishToListen(events) ==
    IF lpc \in {"listening", "raised"}
    THEN /\ lqueue' = lqueue \o [i \in 1..Len(events) |-> PMessage(events[i], nevents + i)]
         /\ nevents' = nevents + Len(events)
    ELSE UNCHANGED <<lqueue, nevents>>

-----------------------------------------------------------------------------
(* Table store calls.  One client makes set_entry, delete_table and        *)
(* mod_config calls, one at a time; a call is an action up to its first    *)
(* reply and then one action per command sent (Command).  mod_entry sends  *)
(* one command and may come from any client, also between the commands of  *)
(* a call in progress.                                                     *)

\* the columns of a stored hash that have both a scalar and a list-typed field
Collisions(store, hash) ==
    IF hash \notin DOMAIN store THEN {}
    ELSE {k \in DOMAIN store[hash] : (k \o LIST_SUFFIX) \in DOMAIN store[hash]}

NoCall == [op |-> "none"]

\* what is kept of a call when it returns
Returned(c) == [f \in DOMAIN c \ {"pend"} |-> c[f]]

\* the call goes on, or returns when it has nothing left to send; between the
\* commands of a call no completed call describes the store
Proceed(c, sent) ==
    IF c.pend = <<>>
    THEN call' = NoCall /\ last' = Returned(c)
    ELSE call' = c /\ last' = (IF sent THEN [op |-> "partial"] ELSE last)

\* set_entry(table, key, data): with None the one delete command; else up to
\* the reply to hgetall (original = self.get_entry(table, key))
SetEntry(table, key, data, bound) ==
    /\ nops < bound
    /\ call = NoCall
    /\ LET hash == HashOf(separator, table, key)
           args == [op |-> "set", table |-> table, key |-> key, data |-> data,
                    before |-> HGetAll(db, hash), hlen |-> Len(hist), clean |-> TRUE]
       IN  IF data = PyNone
           THEN /\ db' = Del(db, hash)
                /\ PublishToListen(DelEvents(db, hash))
                /\ last' = args
                /\ call' = NoCall
           ELSE /\ \E ord \in SUBSET Collisions(db, hash), enc \in SUBSET EncodeCollisions(data) :
                     LET original == GetEntry(db, separator, table, SerializeKey(key), ord)
                     IN  \E order \in Orders(PruneFields(original, data)) :
                            call' = args @@ [pend |-> SetEntryCommands(hash, data, enc, order)]
                /\ UNCHANGED <<db, last, lqueue, nevents>>
    /\ nops' = nops + 1
    /\ UNCHANGED <<separator, py3k, handlers, lpc, hist, lastItem, lastCalls, barrierVars,
                   codecVars>>

\* mod_entry(table, key, data)
ModEntry(table, key, data, bound) ==
    /\ nops < bound
    /\ \E enc \in SUBSET (IF data = PyNone THEN {} ELSE EncodeCollisions(data)) :
          LET r == ModEntryResult(db, separator, table, key, data, enc)
          IN  /\ db' = r.store
              /\ PublishToListen(r.events)
    /\ last' = [op |-> "mod", table |-> table, key |-> key, data |-> data,
                before |-> HGetAll(db, HashOf(separator, table, key)),
                hlen |-> Len(hist), clean |-> TRUE]
    /\ call' = IF call = NoCall THEN call ELSE [call EXCEPT !.clean = FALSE]
    /\ nops' = nops + 1
    /\ UNCHANGED <<separator, py3k, handlers, lpc, hist, lastItem, lastCalls, barrierVars,
                   codecVars>>

\* delete_table(table), up to the reply to client.keys(pattern)
DeleteTable(table, bound) ==
    /\ nops < bound
    /\ call = NoCall
    /\ \E order \in Orders(Keys(db, DeletePattern(separator, table))) :
          Proceed([op |-> "delete_table", table |-> table, store |-> db, clean |-> TRUE,
                   pend |-> DeleteCommands(order)], FALSE)
    /\ nops' = nops + 1
    /\ UNCHANGED <<separator, py3k, db, notifVars, barrierVars, codecVars>>

\* mod_config(data), up to its first command: the order of its loops is that
\* of the dicts it is given
ModConfig(data, bound) ==
    /\ nops < bound
    /\ call = NoCall
    /\ \E steps \in ConfigOrders(data, DOMAIN data) :
          \E cmds \in ConfigCommands(separator, steps) :
             Proceed([op |-> "mod_config", config |-> data, store |-> db, clean |-> TRUE,
                      pend |-> cmds], FALSE)
    /\ nops' = nops + 1
    /\ UNCHANGED <<separator, py3k, db, notifVars, barrierVars, codecVars>>

\* the call in progress sends its next command; the reply to client.keys
\* gives delete_table the keys to delete
Command ==
    /\ call # NoCall
    /\ LET c == Head(call.pend)
           r == Exec(db, c)
       IN  /\ db' = r.store
           /\ PublishToListen(r.events)
           /\ \E order \in Orders(IF c.cmd = "keys" THEN Keys(db, c.prefix) ELSE {}) :
                 Proceed([call EXCEPT !.pend = DeleteCommands(order) \o Tail(call.pend)], TRUE)
    /\ UNCHANGED <<separator, py3k, nops, handlers, lpc, hist, lastItem, lastCalls,
                   barrierVars, codecVars>>

-----------------------------------------------------------------------------
(* Subscription registry: self.handlers, a dict, kept as the set of its    *)
(* (table, handler) items                                                  *)

\* self.handlers.has_key(table): dict has no has_key under Python 3
HasKey(py3, reg, table) ==
    IF py3 THEN [raised |-> TRUE, value |-> FALSE]
    ELSE [raised |-> FALSE, value |-> \E p \in reg : p[1] = table]

\* self.handlers[table]
Lookup(reg, table) == (CHOOSE p \in reg : p[1] = table)[2]

\* subscribe keeping the callback a table has already
DictSetKeepFirst(reg, table, handler) ==
    IF \E p \in reg : p[1] = table THEN reg ELSE reg \cup {<<table, handler>>}

\* self.handlers[table] = handler
DictSet(reg, table, handler) == {p \in reg : p[1] # table} \cup {<<table, handler>>}

\* self.handlers.pop(table)
DictPop(reg, table) == {p \in reg : p[1] # table}

\* subscribe(table, handler)
Subscribe(table, handler) ==
    /\ nops < MaxOps
    /\ handlers' = DictSet(handlers, table, handler)
    /\ hist' = Append(hist, [op |-> "subscribe", table |-> table, handler |-> handler])
    /\ nops' = nops + 1
    /\ UNCHANGED <<separator, py3k, db, last, call, lpc, lqueue, lastItem, lastCalls, nevents,
                   barrierVars, codecVars>>

\* unsubscribe(table): the AttributeError of has_key leaves it with the
\* registry as it was
Unsubscribe(table) ==
    /\ nops < MaxOps
    /\ handlers' = IF HasKey(py3k, handlers, table).value
                   THEN DictPop(handlers, table) ELSE handlers
    /\ hist' = Append(hist, [op |-> "unsubscribe", table |-> table, handler |-> "none"])
    /\ nops' = nops + 1
    /\ UNCHANGED <<separator, py3k, db, last, call, lpc, lqueue, lastItem, lastCalls, nevents,
                   barrierVars, codecVars>>

-----------------------------------------------------------------------------
(* listen *)

\* listen(), up to the loop: the pubsub is created and pattern-subscribed
ListenStart ==
    /\ lpc = "idle"
    /\ lpc' = "listening"
    /\ lqueue' = <<PSubscribeAck(ListenPattern)>>
    /\ UNCHANGED <<separator, py3k, handlers, hist, lastItem, lastCalls, nevents, storeVars,
                   barrierVars, codecVars>>

NoCalls == [calls |-> <<>>, raised |-> FALSE]
Raised  == [calls |-> <<>>, raised |-> TRUE]

\* __fire(table, key, data): the invocations it makes, and whether an
\* exception leaves it
Fire(py3, reg, table, key, data) ==
    IF HasKey(py3, reg, table).raised THEN Raised
    ELSE IF HasKey(py3, reg, table).value
         THEN [calls  |-> <<[handler |-> Lookup(reg, table), table |-> table,
                             key |-> key, data |-> data]>>,
               raised |-> FALSE]
         ELSE NoCalls

\* listen's loop body reading the hash named by the row part of the key
ListenBodyReadsRow(py3, reg, store, sep, item, ord) ==
    IF item.type = "pmessage"
    THEN LET key   == ChannelSplit(py3, item.channel).parts[2]
             parts == Split1(key, sep)
         IN  IF ChannelSplit(py3, item.channel).raised THEN Raised
             ELSE IF Len(parts) # 2 THEN NoCalls
             ELSE IF HasKey(py3, reg, parts[1]).raised THEN Raised
             ELSE IF HasKey(py3, reg, parts[1]).value
                  THEN Fire(py3, reg, parts[1], PyStr(parts[2]),
                            RawToTyped(HGetAll(store, parts[2]), ord))
                  ELSE NoCalls
    ELSE NoCalls

\* the body of listen's loop for one item: the invocations it makes, and
\* whether an exception leaves it (only the ValueError of the unpacking is
\* caught)
ListenBody(py3, reg, store, sep, item, ord) ==
    IF item.type = "pmessage"
    THEN LET key   == ChannelSplit(py3, item.channel).parts[2]
             parts == Split1(key, sep)
         IN  IF ChannelSplit(py3, item.channel).raised THEN Raised   \* TypeError
             ELSE IF Len(parts) # 2 THEN NoCalls       \* ValueError: ignored
             ELSE IF HasKey(py3, reg, parts[1]).raised THEN Raised
             ELSE IF HasKey(py3, reg, parts[1]).value
                  THEN Fire(py3, reg, parts[1], PyStr(parts[2]),
                            RawToTyped(HGetAll(store, key), ord))
                  ELSE NoCalls
    ELSE NoCalls

\* one turn of listen's loop: the next item of the pubsub is taken and
\* processed; an exception ends listen
ListenStep ==
    /\ lpc = "listening"
    /\ lqueue # <<>>
    /\ LET item == Head(lqueue)
           key  == Split1(item.channel, COLON)[2]
       IN  /\ \E ord \in SUBSET Collisions(db, key) :
                 LET r == ListenBody(py3k, handlers, db, separator, item, ord)
                 IN  /\ lastCalls' = r.calls
                     /\ lpc' = IF r.raised THEN "raised" ELSE "listening"
           /\ lastItem' = [item |-> item, reg |-> handlers, hlen |-> Len(hist),
                           idx |-> lastItem.idx + (IF item.type = "pmessage" THEN 1 ELSE 0)]
    /\ lqueue' = Tail(lqueue)
    /\ UNCHANGED <<separator, py3k, handlers, hist, nevents, storeVars, barrierVars, codecVars>>

-----------------------------------------------------------------------------
(* The init indicator and the external initializer *)

\* Python truth of what client.get returns: None and '' are false
Truthy(v) == v # PyNone /\ v.v # <<>>

\* the initializer's events reach the pubsub of __wait_for_db_init once it is
\* subscribed (its pattern matches the indicator key only)
PublishToWaiter(events) ==
    IF wsub
    THEN wqueue' = wqueue \o [i \in 1..Len(events) |-> PMessage(events[i], 0)]
    ELSE UNCHANGED wqueue

\* the initializer (or anyone) runs SET CONFIG_DB_INITIALIZED value
IndicatorSet(value, bound) ==
    /\ nops < bound
    /\ indicator' = PyStr(value)
    /\ PublishToWaiter(<<INIT_INDICATOR>>)
    /\ PublishToListen(<<INIT_INDICATOR>>)
    /\ nops' = nops + 1
    /\ UNCHANGED <<separator, py3k, handlers, lpc, hist, lastItem, lastCalls, db, last, call,
                   wpc, wsub, winit, wlog, codecVars>>

\* someone runs DEL CONFIG_DB_INITIALIZED (an event only if the key was there)
IndicatorDel(bound) ==
    /\ nops < bound
    /\ indicator # PyNone
    /\ indicator' = PyNone
    /\ PublishToWaiter(<<INIT_INDICATOR>>)
    /\ PublishToListen(<<INIT_INDICATOR>>)
    /\ nops' = nops + 1
    /\ UNCHANGED <<separator, py3k, handlers, lpc, hist, lastItem, lastCalls, db, last, call,
                   wpc, wsub, winit, wlog, codecVars>>

-----------------------------------------------------------------------------
(* __wait_for_db_init, one action per command sent to the server or item   *)
(* taken from the pubsub                                                   *)

\* lines 40-43: initialized = client.get(INIT_INDICATOR); return if it is set
WaitGet ==
    /\ wpc = "start"
    /\ winit' = indicator
    /\ wpc' = IF Truthy(indicator) THEN "done" ELSE "subscribe"
    /\ wlog' = [wlog EXCEPT !.atCall = indicator]
    /\ UNCHANGED <<separator, py3k, notifVars, storeVars, indicator, wqueue, wsub, codecVars>>

\* lines 44-45: pubsub.psubscribe(pattern)
WaitSubscribe ==
    /\ wpc = "subscribe"
    /\ wsub' = TRUE
    /\ wqueue' = <<PSubscribeAck(InitPattern)>>
    /\ wpc' = "listen"
    /\ wlog' = [wlog EXCEPT !.subscribed = TRUE]
    /\ UNCHANGED <<separator, py3k, notifVars, storeVars, indicator, winit, codecVars>>

\* whether the loop body ends with an exception for this item (line 48)
WaitRaises(py3, item) ==
    item.type = "pmessage" /\ ChannelSplit(py3, item.channel).raised

\* whether the loop body re-reads the indicator for this item (lines 47-49)
WaitRereads(py3, item) ==
    /\ item.type = "pmessage"
    /\ ~ChannelSplit(py3, item.channel).raised
    /\ ChannelSplit(py3, item.channel).parts[2] = INIT_INDICATOR

\* the loop broken on any message for the indicator key, set or not
WaitBreaksOnAnyMessage(py3, item, value) == WaitRereads(py3, item)

\* whether the loop body breaks out of the loop for this item (lines 47-52)
WaitBreaks(py3, item, value) == WaitRereads(py3, item) /\ Truthy(value)

\* lines 46-52: one turn of the loop over pubsub.listen(); an exception ends
\* the call with the pubsub still subscribed
WaitListenStep ==
    /\ wpc = "listen"
    /\ wqueue # <<>>
    /\ LET item == Head(wqueue)
       IN  /\ winit' = IF WaitRereads(py3k, item) THEN indicator ELSE winit
           /\ wpc' = IF WaitRaises(py3k, item) THEN "raised"
                     ELSE IF WaitBreaks(py3k, item, indicator) THEN "unsubscribe"
                     ELSE "listen"
           /\ wlog' = [wlog EXCEPT !.item = item,
                                   !.reread = IF WaitRereads(py3k, item)
                                              THEN [done |-> TRUE, value |-> indicator]
                                              ELSE [done |-> FALSE, value |-> PyNone],
                                   !.stayed = @ + (IF WaitRereads(py3k, item) /\ ~Truthy(indicator)
                                                   THEN 1 ELSE 0)]
    /\ wqueue' = Tail(wqueue)
    /\ UNCHANGED <<separator, py3k, notifVars, storeVars, indicator, wsub, codecVars>>

\* line 53: pubsub.punsubscribe(pattern), and the return
WaitUnsubscribe ==
    /\ wpc = "unsubscribe"
    /\ wsub' = FALSE
    /\ wqueue' = <<>>
    /\ wpc' = "done"
    /\ UNCHANGED <<separator, py3k, notifVars, storeVars, indicator, winit, wlog, codecVars>>

WaitForInit == WaitGet \/ WaitSubscribe \/ WaitListenStep \/ WaitUnsubscribe

-----------------------------------------------------------------------------
(* Codec runs: a typed row is encoded and decoded, a key serialized and    *)
(* deserialized                                                            *)

CodecTypedToRaw ==
    /\ cpc = "given"
    /\ \E ord \in SUBSET EncodeCollisions(crow) : craw' = TypedToRaw(crow, ord)
    /\ cpc' = "encoded"
    /\ UNCHANGED <<separator, py3k, notifVars, storeVars, barrierVars, crow, cback, ckey, cser, ckback>>

\* __raw_to_typed of what __typed_to_raw returned
CodecRawToTyped ==
    /\ cpc = "encoded"
    /\ \E ord \in SUBSET {k \in DOMAIN craw.d : (k \o LIST_SUFFIX) \in DOMAIN craw.d} :
          /\ cback' = RawToTypedOfStr(py3k, craw, ord)
          /\ cpc' = IF cback' = PyRaised THEN "raised" ELSE "decoded"
    /\ UNCHANGED <<separator, py3k, notifVars, storeVars, barrierVars, crow, craw, ckey, cser, ckback>>

CodecSerializeKey ==
    /\ cpc \in {"decoded", "raised"}
    /\ cser' = SerializeKey(ckey)
    /\ cpc' = "serialized"
    /\ UNCHANGED <<separator, py3k, notifVars, storeVars, barrierVars, crow, craw, cback, ckey, ckback>>

CodecDeserializeKey ==
    /\ cpc = "serialized"
    /\ ckback' = DeserializeKey(cser)
    /\ cpc' = "deserialized"
    /\ UNCHANGED <<separator, py3k, notifVars, storeVars, barrierVars, crow, craw, cback, ckey, cser>>

-----------------------------------------------------------------------------
(* Specifications *)

NotifIdle ==
    /\ handlers = {}
    /\ lpc = "idle"
    /\ lqueue = <<>>
    /\ hist = <<>>
    /\ lastItem = [item |-> NoItem, reg |-> {}, hlen |-> 0, idx |-> 0]
    /\ lastCalls = <<>>
    /\ nevents = 0

StoreEmpty ==
    /\ db = <<>>
    /\ last = [op |-> "none"]
    /\ call = NoCall
    /\ nops = 0

WaitLogInit ==
    [atCall |-> PyNone, subscribed |-> FALSE, item |-> NoItem,
     reread |-> [done |-> FALSE, value |-> PyNone], stayed |-> 0]

BarrierIdle ==
    /\ indicator = PyNone
    /\ wpc = "idle"
    /\ wqueue = <<>>
    /\ wsub = FALSE
    /\ winit = PyNone
    /\ wlog = WaitLogInit

CodecIdle ==
    /\ cpc = "idle"
    /\ crow = PyNone
    /\ craw = PyNone
    /\ cback = PyNone
    /\ ckey = PyNone
    /\ cser = PyNone
    /\ ckback = PyNone

(* Spec: a connected connector with its registry and listen loop, and the  *)
(* clients writing to the database                                         *)

Tables  == {<<"T">>, <<"u">>}
RowKeys == {KeyA, KeyAB}
Data    == {PyNone, PyDict([c \in {ColC} |-> ValX])}
ModData == {PyDict([c \in {ColC} |-> ValY])}
\* the rows written: two rows of table T (a scalar and a tuple key), one of the
\* table named in lower case
Targets == {<< <<"T">>, KeyA >>, << <<"T">>, KeyAB >>, << <<"u">>, KeyA >>}

Init ==
    /\ separator \in Separators
    /\ py3k \in BOOLEAN
    /\ NotifIdle /\ StoreEmpty /\ BarrierIdle /\ CodecIdle

Next ==
    \/ \E r \in Targets, d \in Data : SetEntry(r[1], r[2], d, MaxOps)
    \/ \E r \in Targets, d \in ModData : r[1] = <<"T">> /\ ModEntry(r[1], r[2], d, MaxOps)
    \/ Command
    \/ \E t \in Tables, h \in Callbacks : Subscribe(t, h)
    \/ \E t \in Tables : Unsubscribe(t)
    \/ IndicatorSet(<<"1">>, MaxOps)
    \/ ListenStart
    \/ ListenStep

Spec == Init /\ [][Next]_vars

(* StoreSpec: the table store calls alone, on richer rows *)

StoreTables == {<<"t">>, <<"U">>}
\* the rows written: a scalar key in the table named in lower case, a tuple
\* key in the other
StoreTargets == {<< <<"t">>, KeyA >>, << <<"U">>, KeyAB >>}
\* None, and the rows with column c absent, scalar, an empty list or a list, and
\* column d absent or scalar
StoreData   == {PyNone} \cup
               {r \in RowsOver({ColC, ColD}, {ValX, ValEmptyList, ValListXY}) :
                   ColD \in DOMAIN r.d => r.d[ColD] = ValX}

StoreInit ==
    /\ separator \in Separators
    /\ py3k \in BOOLEAN
    /\ NotifIdle /\ StoreEmpty /\ BarrierIdle /\ CodecIdle

StoreNext ==
    \/ \E r \in StoreTargets, d \in StoreData : SetEntry(r[1], r[2], d, MaxStoreOps)
    \/ \E r \in StoreTargets, d \in StoreData : ModEntry(r[1], r[2], d, MaxStoreOps)
    \/ Command

StoreSpec == StoreInit /\ [][StoreNext]_vars

(* ConfigSpec: the table store calls with the bulk calls delete_table and   *)
(* mod_config, and the init indicator as a key that is no table row         *)

ConfigTables  == {<<"t">>, <<"U">>}
ConfigTargets == {<< <<"t">>, KeyA >>, << <<"t">>, KeyAB >>, << <<"U">>, KeyA >>}
ConfigData    == {PyNone, EmptyDict, PyDict([c \in {ColC} |-> ValX]),
                  PyDict([c \in {ColC} |-> ValListXY])}
\* set_entry: every value of ConfigData on row a of t, a scalar column on the
\* other rows
ConfigSets    == {<<r, d>> \in ConfigTargets \X ConfigData :
                     r = << <<"t">>, KeyA >> \/ d = PyDict([c \in {ColC} |-> ValX])}
RowD          == PyDict([c \in {ColD} |-> ValX])
\* a row that names both a list-typed column c and a column 'c@': the field
\* 'c@' gets the value of the one __typed_to_raw iterates last
RowBoth       == PyDict(ColC :> PyList(<< <<"x">> >>) @@ (ColC \o LIST_SUFFIX) :> PyStr(<<"y">>))
\* mod_entry: RowD on every row, RowBoth on row a of t
ConfigMods    == {RowD, RowBoth}
\* arguments of mod_config: a table deleted, a row deleted, a row merged and a
\* row deleted, two tables, a table with no key, no table
Configs ==
    { (<<"t">> :> PyNone),
      (<<"t">> :> PyDict(KeyA :> PyNone)),
      (<<"t">> :> PyDict(KeyA :> RowD @@ KeyAB :> PyNone)),
      (<<"U">> :> PyNone @@ <<"t">> :> PyDict(KeyAB :> RowD)),
      (<<"U">> :> PyDict(<<>>)),
      <<>> }

ConfigInit ==
    /\ separator \in Separators
    /\ py3k \in BOOLEAN
    /\ NotifIdle /\ StoreEmpty /\ BarrierIdle /\ CodecIdle

ConfigNext ==
    \/ \E s \in ConfigSets : SetEntry(s[1][1], s[1][2], s[2], MaxConfigOps)
    \/ \E r \in ConfigTargets, d \in ConfigMods :
          (d = RowD \/ r = << <<"t">>, KeyA >>) /\ ModEntry(r[1], r[2], d, MaxConfigOps)
    \/ \E t \in ConfigTables : DeleteTable(t, MaxConfigOps)
    \/ \E c \in Configs : ModConfig(c, MaxConfigOps)
    \/ Command
    \/ IndicatorSet(<<"1">>, MaxConfigOps)

ConfigSpec == ConfigInit /\ [][ConfigNext]_vars

(* BarrierSpec: __wait_for_db_init against the external initializer *)

BarrierInit ==
    /\ separator \in Separators
    /\ py3k \in BOOLEAN
    /\ NotifIdle /\ StoreEmpty /\ CodecIdle
    /\ indicator \in {PyNone, PyStr(<<"1">>)}
    /\ wpc = "start"
    /\ wqueue = <<>>
    /\ wsub = FALSE
    /\ winit = PyNone
    /\ wlog = WaitLogInit

BarrierNext ==
    \/ WaitGet
    \/ WaitSubscribe
    \/ WaitListenStep
    \/ WaitUnsubscribe
    \/ IndicatorSet(<<"1">>, MaxWrites)
    \/ IndicatorDel(MaxWrites)

BarrierSpec == BarrierInit /\ [][BarrierNext]_vars

\* the caller of __wait_for_db_init runs whenever it can; nothing makes the
\* initializer write again
FairBarrierSpec == BarrierSpec /\ WF_vars(WaitForInit)

(* CodecSpec: the codecs on given rows and keys *)

MaxArity == 3   \* longest tuple key given

CodecColumns  == {ColC, ColC \o LIST_SUFFIX, NULL_NAME}
CodecValues   == {PyStr(<<>>), PyStr(<<"x">>), PyList(<<>>), PyList(<< <<>> >>),
                  PyList(<< <<"x">> >>), ValListXY, PyList(<< <<"x", ",", "y">> >>)}
CodecSegments == {<<>>, <<"a">>, <<"a", "|", "b">>}
CodecKeys     == {PyStr(s) : s \in CodecSegments}
                 \cup UNION {{PyTuple(t) : t \in [1..n -> CodecSegments]} : n \in 0..MaxArity}

CodecInit ==
    /\ separator \in Separators
    /\ py3k \in BOOLEAN
    /\ NotifIdle /\ StoreEmpty /\ BarrierIdle
    /\ cpc = "given"
    /\ crow \in RowsOver(CodecColumns, CodecValues)
    /\ ckey \in CodecKeys
    /\ craw = PyNone
    /\ cback = PyNone
    /\ cser = PyNone
    /\ ckback = PyNone

CodecNext ==
    \/ CodecTypedToRaw
    \/ CodecRawToTyped
    \/ CodecSerializeKey
    \/ CodecDeserializeKey

CodecSpec == CodecInit /\ [][CodecNext]_vars

-----------------------------------------------------------------------------
(* Claims about the init barrier (BarrierSpec, FairBarrierSpec) *)

\* C1 (as claimed): if the initializer sets the init indicator at any point and the
\* indicator then stays set, __wait_for_db_init eventually returns.
C1_Claim == <>[]Truthy(indicator) => <>(wpc = "done")

\* C2: __wait_for_db_init returns at once and without subscribing when the
\* indicator is set at call time; otherwise it leaves its loop only on a
\* pattern-matched message for the indicator key whose re-read of the indicator,
\* made while processing that message, finds it set.  An acknowledgement, or a
\* message with no re-read that finds the indicator set, never makes it return
\* (it stays in the loop, or under Python 3 ends with the TypeError of line 48).
C2_Theorem ==
    /\ Truthy(wlog.atCall) => wpc = "done" /\ ~wlog.subscribed /\ wlog.item = NoItem
    /\ wpc \in {"unsubscribe", "done"} /\ ~Truthy(wlog.atCall) =>
          /\ wlog.subscribed
          /\ wlog.item.type = "pmessage"
          /\ wlog.item.channel = KEYSPACE_PREFIX \o COLON \o INIT_INDICATOR
          /\ wlog.reread.done
          /\ Truthy(wlog.reread.value)
    /\ wlog.item # NoItem /\ (wlog.item.type # "pmessage" \/ ~Truthy(wlog.reread.value)) =>
          /\ wpc \in {"listen", "raised"}
          /\ wpc = "raised" => py3k /\ wlog.item.type = "pmessage"

\* C2 witness: the call found the indicator unset, subscribed, saw a message whose
\* re-read found the indicator unset and stayed, and has returned after a later one.
C2_Witness ==
    /\ wpc = "done"
    /\ ~Truthy(wlog.atCall)
    /\ wlog.item.type = "pmessage"
    /\ Truthy(wlog.reread.value)
    /\ wlog.stayed >= 1

-----------------------------------------------------------------------------
(* Claims about the codecs (CodecSpec) *)

HasSymbol(s, sym) == \E i \in 1..Len(s) : <<s[i]>> = sym

\* a row in the scope of C5: no column name ends with '@', no value holds a comma
RowInScope(row) ==
    \A col \in DOMAIN row.d :
        /\ ~EndsWith(col, LIST_SUFFIX)
        /\ IF row.d[col].py = "list"
           THEN \A i \in 1..Len(row.d[col].v) : ~HasSymbol(row.d[col].v[i], COMMA)
           ELSE ~HasSymbol(row.d[col].v, COMMA)

\* C5 (as claimed): for every row whose column names do not end with '@' and whose
\* values (strings, or lists of strings of any length, the empty list included)
\* hold no comma, __raw_to_typed(__typed_to_raw(row)) is the row.
C5_Claim ==
    cpc \in {"decoded", "raised"} /\ RowInScope(crow) => cback = crow

\* a key in the scope of C6: a string, or a tuple of strings, free of the separator
KeyInScope(key) ==
    IF key.py = "tuple"
    THEN \A i \in 1..Len(key.v) : ~HasSymbol(key.v[i], CLASS_KEY_SEPARATOR)
    ELSE ~HasSymbol(key.v, CLASS_KEY_SEPARATOR)

\* C6 (as claimed): for every tuple key of any arity with separator-free segments,
\* and every separator-free string key, deserialize_key(serialize_key(k)) is k.
C6_Original ==
    cpc = "deserialized" /\ KeyInScope(ckey) => ckback = ckey

\* C6 (amended): for every tuple key of two or more separator-free segments, and
\* every separator-free string key, deserialize_key(serialize_key(k)) is k.
C6_Theorem ==
    cpc = "deserialized" /\ KeyInScope(ckey) /\ (ckey.py = "tuple" => Len(ckey.v) >= 2)
        => ckback = ckey

\* C6 witness: a tuple of three separator-free segments, one of them empty, has
\* made the round trip.
C6_Witness ==
    /\ cpc = "deserialized"
    /\ ckey = PyTuple(<< <<"a">>, <<>>, <<"a">> >>)
    /\ ckback = ckey

-----------------------------------------------------------------------------
(* Claims about the table store (StoreSpec) *)

AllOrders == SUBSET {ColC, ColD}

\* a previous row overridden by data
Override(prev, data) ==
    PyDict([k \in DOMAIN prev.d \cup DOMAIN data.d |->
               IF k \in DOMAIN data.d THEN data.d[k] ELSE prev.d[k]])

\* C3 (as claimed): after set_entry(t, k, data) with data not None, whatever row was
\* stored before, get_entry(t, k) is data exactly (no other client having
\* written during the call).
C3_Claim ==
    last.op = "set" /\ last.clean /\ last.data # PyNone =>
        \A ord \in AllOrders :
            GetEntry(db, separator, last.table, last.key, ord) = last.data

\* C4 (as claimed): after mod_entry(t, k, data) with data not None, get_entry(t, k)
\* is the previous row overridden by data: data's columns with data's values, the
\* other previous columns with their previous values.
C4_Claim ==
    last.op = "mod" /\ last.data # PyNone =>
        \A ord \in AllOrders : \E before \in AllOrders :
            GetEntry(db, separator, last.table, last.key, ord)
                = Override(RawToTyped(last.before, before), last.data)

\* C10: get_entry returns a dict and never None, for every row in every state; it
\* returns {} for a row that is not stored, and so right after set_entry or
\* mod_entry with None.
C10_Theorem ==
    /\ \A t \in StoreTables, k \in RowKeys, ord \in AllOrders :
          /\ GetEntry(db, separator, t, k, ord) # PyNone
          /\ HashOf(separator, t, k) \notin DOMAIN db =>
                GetEntry(db, separator, t, k, ord) = EmptyDict
    /\ last.op \in {"set", "mod"} /\ last.data = PyNone =>
          /\ HashOf(separator, last.table, last.key) \notin DOMAIN db
          /\ \A ord \in AllOrders :
                GetEntry(db, separator, last.table, last.key, ord) = EmptyDict

\* C10 witness: set_entry with None has deleted a row that had a list-typed column.
C10_Witness ==
    /\ last.op = "set"
    /\ last.data = PyNone
    /\ last.before = PyDict([f \in {ColC \o LIST_SUFFIX} |-> <<"x", ",", "y">>])
    /\ db = <<>>
    /\ GetEntry(db, separator, last.table, last.key, {}) = EmptyDict

-----------------------------------------------------------------------------
(* Claims about the registry and listen (Spec) *)

\* the key of a pattern-matched message: the channel without "__keyspace@<dbid>__:"
EventKey(item) == SubSeq(item.channel, Len(KEYSPACE_PREFIX) + 2, Len(item.channel))

\* the table and the row part of a key holding the separator
TablePart(key, sep) == SubSeq(key, 1, Min(SepPositions(key, sep)) - 1)
RowPart(key, sep)   == SubSeq(key, Min(SepPositions(key, sep)) + 1, Len(key))

\* whether the item is a message for a key TABLE<sep>row with a callback
\* registered for TABLE in reg
Matches(item, reg, sep) ==
    /\ item.type = "pmessage"
    /\ HasSymbol(EventKey(item), sep)
    /\ \E p \in reg : p[1] = TablePart(EventKey(item), sep)

\* C7 (as claimed): every processed item that is a message for a key TABLE<sep>row, with a
\* callback registered for TABLE when it is processed, makes exactly one
\* invocation, of that callback for that table; any other item (an
\* acknowledgement, a key with no separator, a table with no callback) makes none;
\* and the messages are processed in the order of their publication, none skipped.
C7_Claim ==
    lastItem.item # NoItem =>
        /\ Matches(lastItem.item, lastItem.reg, separator) =>
              /\ Len(lastCalls) = 1
              /\ lastCalls[1].table = TablePart(EventKey(lastItem.item), separator)
              /\ <<lastCalls[1].table, lastCalls[1].handler>> \in lastItem.reg
        /\ ~Matches(lastItem.item, lastItem.reg, separator) => lastCalls = <<>>
        /\ lastItem.item.type = "pmessage" => lastItem.item.n = lastItem.idx

\* C8 (as claimed): the key argument of an invocation is the deserialized row key:
\* deserialize_key of what follows the first separator of the event's key.
C8_Claim ==
    lastCalls # <<>> =>
        lastCalls[1].key = DeserializeKey(PyStr(RowPart(EventKey(lastItem.item), separator)))

RECURSIVE CurrentHandler(_, _)
\* the callback most recently subscribed for table in the call history h and not
\* unsubscribed since ("none" if there is none)
CurrentHandler(h, table) ==
    IF h = <<>> THEN "none"
    ELSE IF h[Len(h)].table = table
         THEN (IF h[Len(h)].op = "subscribe" THEN h[Len(h)].handler ELSE "none")
         ELSE CurrentHandler(SubSeq(h, 1, Len(h) - 1), table)

\* C9: after every step the registry holds at most one callback per table;
\* every invocation made for a table is of the callback most recently
\* subscribed for it and not unsubscribed since when the event is processed, so
\* a callback replaced or removed is not invoked again; and unsubscribe of a
\* table that has no callback leaves the registry as it was
C9_Theorem ==
    [][/\ \A p \in handlers', q \in handlers' : p[1] = q[1] => p = q
       /\ \A i \in 1..Len(lastCalls') :
             lastCalls'[i].handler
                 = CurrentHandler(SubSeq(hist', 1, lastItem'.hlen), lastCalls'[i].table)
       /\ (/\ Len(hist') > Len(hist)
           /\ hist'[Len(hist')].op = "unsubscribe"
           /\ ~\E p \in handlers : p[1] = hist'[Len(hist')].table)
          => handlers' = handlers]_vars

\* C9 witness: a table's callback was replaced by a later subscribe, and an event
\* processed after that invoked the later one.
C9_Witness ==
    /\ Len(lastCalls) = 1
    /\ \E i \in 1..lastItem.hlen, j \in 1..lastItem.hlen :
          /\ i < j
          /\ hist[i] = [op |-> "subscribe", table |-> lastCalls[1].table, handler |-> "cb1"]
          /\ hist[j] = [op |-> "subscribe", table |-> lastCalls[1].table, handler |-> "cb2"]
    /\ lastCalls[1].handler = "cb2"


\* the iteration orders of the fields of every stored hash
AllOrds(store) ==
    SUBSET {p \in (DOMAIN store) \X {ColC, ColD} : p[2] \in Collisions(store, p[1])}

\* C11: after set_entry(t, k, {}) the row exists and has no column: get_entry
\* gives {}, k is among get_keys(t) and get_table(t)[k] is {}; after
\* set_entry(t, k, None) k is neither among get_keys(t) nor in get_table(t)
\* (no other client having written during the call)
C11_Claim ==
    /\ last.op = "set" /\ last.clean /\ last.data = EmptyDict =>
          \A ords \in AllOrds(db) :
             LET hash  == HashOf(separator, last.table, last.key)
                 table == GetTable(db, separator, last.table, ords)
             IN  /\ GetEntry(db, separator, last.table, last.key, OrdOf(ords, hash)) = EmptyDict
                 /\ last.key \in GetKeys(db, separator, last.table)
                 /\ last.key \in DOMAIN table
                 /\ table[last.key] = EmptyDict
    /\ last.op = "set" /\ last.data = PyNone =>
          /\ last.key \notin GetKeys(db, separator, last.table)
          /\ \A ords \in AllOrds(db) :
                last.key \notin DOMAIN GetTable(db, separator, last.table, ords)


\* whether the stored key is one of the rows of table (its prefix is the table's)
InTable(sep, table, key) ==
    /\ Len(key) >= Len(TablePrefix(sep, table))
    /\ SubSeq(key, 1, Len(TablePrefix(sep, table))) = TablePrefix(sep, table)

\* whether config mentions the stored key: its table with None, or its row
Mentioned(config, sep, key) ==
    \E t \in DOMAIN config :
        IF config[t] = PyNone THEN InTable(sep, t, key)
        ELSE \E k \in DOMAIN config[t].d : key = HashOf(sep, t, k)

\* whether the stored key is the same, with the same fields, in both stores
SameRow(before, after, key) ==
    /\ key \in DOMAIN before <=> key \in DOMAIN after
    /\ key \in DOMAIN before => after[key] = before[key]

\* C12: mod_config deletes what its argument marks with None and nothing else:
\* a table given as None has no row afterwards, a row given as None is gone,
\* and every row the argument does not mention is stored as it was (the call
\* has returned and no other client has written during it)
C12_Theorem ==
    last.op = "mod_config" /\ last.clean =>
        /\ \A t \in DOMAIN last.config :
              IF last.config[t] = PyNone
              THEN /\ GetKeys(db, separator, t) = {}
                   /\ \A ords \in AllOrds(db) : GetTable(db, separator, t, ords) = <<>>
              ELSE \A k \in DOMAIN last.config[t].d :
                      last.config[t].d[k] = PyNone =>
                          /\ k \notin GetKeys(db, separator, t)
                          /\ GetEntry(db, separator, t, k, {}) = EmptyDict
        /\ \A key \in DOMAIN last.store \cup DOMAIN db :
              ~Mentioned(last.config, separator, key) => SameRow(last.store, db, key)

\* mod_config({'t': None}) on a database with a row of T and a row of U: the
\* row of T is gone and the row of U is left
C12_Witness ==
    /\ last.op = "mod_config" /\ last.clean
    /\ last.config = (<<"t">> :> PyNone)
    /\ GetKeys(last.store, separator, <<"T">>) # {}
    /\ GetKeys(db, separator, <<"T">>) = {}
    /\ GetKeys(db, separator, <<"U">>) = {KeyA}

\* C13: mod_config merges: a row its argument does not mention (its table is
\* not in the argument, or is there with a dict that has not its key) reads as
\* before, and a row mentioned with data reads as after mod_entry on what was
\* stored before (the call has returned and no other client has written
\* during it)
C13_Theorem ==
    last.op = "mod_config" /\ last.clean =>
        /\ \A key \in DOMAIN last.store \cup DOMAIN db :
              ~Mentioned(last.config, separator, key) =>
                  /\ SameRow(last.store, db, key)
                  /\ \A ord \in SUBSET Collisions(db, key) :
                        RawToTyped(HGetAll(db, key), ord)
                            = RawToTyped(HGetAll(last.store, key), ord)
        /\ \A t \in DOMAIN last.config :
              last.config[t] # PyNone =>
                  \A k \in DOMAIN last.config[t].d :
                      last.config[t].d[k] # PyNone =>
                          \E enc \in SUBSET EncodeCollisions(last.config[t].d[k]) :
                             LET modded == ModEntryResult(last.store, separator, t, k,
                                                          last.config[t].d[k], enc).store
                             IN  \A ord \in SUBSET Collisions(db, HashOf(separator, t, k)) :
                                    GetEntry(db, separator, t, k, ord)
                                        = GetEntry(modded, separator, t, k, ord)

\* mod_config({'t': {'a': {'d': 'x'}, ('a','b'): None}}) on a database where row
\* a of T has column c and table U has a row: row a has both columns, U's row
\* is left
C13_Witness ==
    /\ last.op = "mod_config" /\ last.clean
    /\ last.config = (<<"t">> :> PyDict(KeyA :> RowD @@ KeyAB :> PyNone))
    /\ GetEntry(last.store, separator, <<"T">>, KeyA, {}) = PyDict([c \in {ColC} |-> ValX])
    /\ GetEntry(db, separator, <<"T">>, KeyA, {}) = PyDict([c \in {ColC, ColD} |-> ValX])
    /\ GetKeys(db, separator, <<"U">>) = {KeyA}
    /\ GetKeys(last.store, separator, <<"U">>) = {KeyA}


\* C14: after set_entry(t, k, r) on a table that had no row k, get_table(t)[k]
\* is r, every list-typed column with the same elements in the same order (no
\* other client having written during the call)
C14_Claim ==
    last.op = "set" /\ last.clean /\ last.data # PyNone /\ last.before = EmptyDict =>
        \A ords \in AllOrds(db) :
            LET table == GetTable(db, separator, last.table, ords)
            IN  /\ last.key \in DOMAIN table
                /\ table[last.key] = last.data


\* C15: the row listen passes to a callback is what get_entry returns for that
\* table and key when the item is processed: {} when the row is gone by then,
\* the stored value when it was written again, whatever the row was when the
\* event was published
C15_Theorem ==
    [][Len(lqueue') < Len(lqueue) =>
          \A i \in DOMAIN lastCalls' :
              \E ord \in SUBSET {ColC, ColD} :
                  lastCalls'[i].data
                      = GetEntry(db, separator, lastCalls'[i].table, lastCalls'[i].key, ord)]_vars

\* the first message, published by the write of a row with a column, was
\* processed after the row was deleted: the callback was given {}
C15_Witness ==
    /\ lastItem.item.type = "pmessage"
    /\ lastItem.item.n = 1
    /\ Len(lastCalls) = 1
    /\ lastCalls[1].data = EmptyDict
    /\ last.op = "set" /\ last.data = PyNone
    /\ last.before = PyDict([c \in {ColC} |-> <<"x">>])
    /\ nevents = 2
    /\ db = <<>>


\* C16: a tuple key is joined with the separator the connector was configured
\* with: set_entry(t, (a, b), row) writes the key upper(t) <sep> a <sep> b, and
\* deserialize_key splits that row key on the same separator
C16_Claim ==
    last.op = "set" /\ last.clean /\ last.data # PyNone /\ last.key.py = "tuple" =>
        /\ (Upper(last.table) \o separator \o Join(separator, last.key.v)) \in DOMAIN db
        /\ DeserializeKey(PyStr(Join(separator, last.key.v))) = last.key


\* C17: with a key that has no separator in the database (the init indicator),
\* get_config returns without an exception, sends no hgetall for that key, has
\* no entry made from it, and returns for the table rows what it returns when
\* that key is not there
C17_Theorem ==
    StringKeys(indicator) # {} =>
        \A ords \in AllOrds(db) :
            LET got   == GetConfig(db, indicator, separator, ords)
                clean == GetConfig(db, PyNone, separator, ords)
            IN  /\ ~got.raised
                /\ got.reads \cap StringKeys(indicator) = {}
                /\ \A key \in StringKeys(indicator) : key \notin DOMAIN got.data
                /\ got.data = clean.data

\* the indicator is set and get_config returns rows of two tables
C17_Witness ==
    /\ indicator = PyStr(<<"1">>)
    /\ INIT_INDICATOR \in AllKeys(db, indicator)
    /\ DOMAIN GetConfig(db, indicator, separator, {}).data = {<<"T">>, <<"U">>}


\* C18: for a table name t in any letter case, once subscribe(t, cb) is made
\* and stays, a later set_entry(t, ...) or mod_entry(t, ...) under the same
\* name publishes an event for which listen invokes cb
C18_Claim ==
    /\ last.op \in {"set", "mod"} /\ last.clean /\ last.data # PyNone
    /\ lastItem.item.type = "pmessage"
    /\ lastItem.item.n = nevents
    /\ EventKey(lastItem.item) = HashOf(separator, last.table, last.key)
    =>
    \A i \in 1..last.hlen :
        (/\ hist[i].op = "subscribe" /\ hist[i].table = last.table
         /\ \A j \in (i + 1)..lastItem.hlen : hist[j].table # last.table)
        => /\ Len(lastCalls) = 1
           /\ lastCalls[1].handler = hist[i].handler


\* C19: set_entry with data writes before it prunes: when the row was stored
\* before the call, it is stored, with a field, in every state between the
\* commands set_entry sends and after the last one (no other client having
\* written during the call)
C19_Theorem ==
    /\ call.op = "set" /\ call.clean /\ call.before # EmptyDict =>
          HashOf(separator, call.table, call.key) \in DOMAIN db
    /\ last.op = "set" /\ last.clean /\ last.data # PyNone /\ last.before # EmptyDict =>
          HashOf(separator, last.table, last.key) \in DOMAIN db

\* set_entry(t, k, {}) on a row with the columns c and d, after hmset and the
\* first hdel: one hdel is still to be sent and the row has the placeholder
\* and one of its columns
C19_Witness ==
    /\ call.op = "set" /\ call.clean /\ call.data = EmptyDict
    /\ DOMAIN call.before.d = {ColC, ColD}
    /\ Len(call.pend) = 1
    /\ call.pend[1].cmd = "hdel"
    /\ Cardinality(DOMAIN db[HashOf(separator, call.table, call.key)]) = 2
    /\ NULL_NAME \in DOMAIN db[HashOf(separator, call.table, call.key)]


\* the table names the read calls are made with, in both letter cases
ReadTables == {<<"t">>, <<"T">>, <<"u">>, <<"U">>}

\* C20: the read calls agree in every state: for every table the keys of
\* get_keys are the keys of get_table, get_table's row for a key is get_entry
\* of that key, and get_config maps the upper-cased name of a table that has a
\* row to get_table of it and has no entry for a table that has none
C20_Theorem ==
    \A t \in ReadTables :
        \A ords \in AllOrds(db) :
            LET table  == GetTable(db, separator, t, ords)
                config == GetConfig(db, indicator, separator, ords).data
            IN  /\ GetKeys(db, separator, t) = DOMAIN table
                /\ \A k \in DOMAIN table :
                      table[k] = GetEntry(db, separator, t, k,
                                          OrdOf(ords, HashOf(separator, t, k)))
                /\ IF DOMAIN table # {}
                   THEN Upper(t) \in DOMAIN config /\ config[Upper(t)] = table
                   ELSE Upper(t) \notin DOMAIN config

\* table T has a row with a scalar key and a row with a tuple key, table U has
\* a row, and get_config returns both tables
C20_Witness ==
    /\ GetKeys(db, separator, <<"t">>) = {KeyA, KeyAB}
    /\ GetKeys(db, separator, <<"u">>) = {KeyA}
    /\ DOMAIN GetConfig(db, indicator, separator, {}).data = {<<"T">>, <<"U">>}

=============================================================================
